---- MODULE Spec2Model ----
(***************************************************************************)
(* Model of vec2tif/csv2tif.py: the column resolver get_latlon_names and   *)
(* the CSV -> GeoTIFF conversion driven by Csv2Tif.execute_all.            *)
(*                                                                         *)
(* Strings that the code transforms (column names, file suffixes) are      *)
(* sequences of character codes, so that str.lower() is a computation.     *)
(* Coordinates are integers (a fixed small angular unit); the grid         *)
(* arithmetic of convert_csv is then exact integer/rational arithmetic.    *)
(***************************************************************************)
EXTENDS Integers, Sequences, FiniteSets, TLC

VARIABLES
    columns,    \* get_latlon_names: the header passed in
    col_i,      \* get_latlon_names: enumerate() position, 0-based
    result,     \* get_latlon_names: the result dict
    ret,        \* get_latlon_names: outcome (return value or raised error)
    rpc,        \* get_latlon_names: control position
    input_file_list,  \* Csv2Tif.input_file_list
    resolution,       \* Csv2Tif.resolution
    crs_code,         \* Csv2Tif.crs_code
    fs,         \* the input files: name -> table, or absent
    out,        \* the output files: name -> raster file, or absent
    idx,        \* execute_all: number of inputs whose iteration has ended
    pc,         \* control position of execute_all / execute_one / convert_csv
    loc,        \* locals of execute_one / convert_csv for the current input
    handles,    \* the output file handles that are open
    exc,        \* the exception being propagated, if any
    out_before, \* history: the output files when the current input began
    attempted,  \* history: list positions execute_one was called for
    converted,  \* history: list positions whose convert_csv returned
    lib         \* what the installed rasterio/GDAL build does where builds differ

rvars == <<columns, col_i, result, ret, rpc>>

bvars == <<input_file_list, resolution, crs_code, fs, out, idx, pc, loc,
           handles, exc, out_before, attempted, converted, lib>>

vars == <<rvars, bvars>>

----------------------------------------------------------------------------
(* Bounds *)

\* longest header enumerated for the column resolver
MaxCols == 3

\* coordinates of the enumerated points range over 0..MaxCoord
MaxCoord == 2

\* the resolution ranges over 1..MaxRes
MaxRes == 2

\* longest input_file_list enumerated
MaxInputs == 2

\* the enumerated widenings of a metre of longitude at point0's latitude
Stretches == {1, 2}

\* the enumerated attribute values
Values == {1, 2}

\* the enumerated row counts of a table
RowCounts == {1, 2, 3}

\* the enumerated EPSG codes: WGS 84, and a code that names no CRS
CrsCodes == {4326, 0}

----------------------------------------------------------------------------
(* Character strings *)

\* "lat"
s_lat == <<108, 97, 116>>
\* "latitude"
s_latitude == <<108, 97, 116, 105, 116, 117, 100, 101>>
\* "lng"
s_lng == <<108, 110, 103>>
\* "longitude"
s_longitude == <<108, 111, 110, 103, 105, 116, 117, 100, 101>>
\* "LAT"
s_LAT == <<76, 65, 84>>
\* "Latitude"
s_Latitude == <<76, 97, 116, 105, 116, 117, 100, 101>>
\* "Lng"
s_Lng == <<76, 110, 103>>
\* "Longitude"
s_Longitude == <<76, 111, 110, 103, 105, 116, 117, 100, 101>>
\* "lon" (not an alias the code knows)
s_lon == <<108, 111, 110>>
\* "val"
s_val == <<118, 97, 108>>
\* "W"
s_W == <<87>>

\* str.lower() on ASCII: 'A'..'Z' (65..90) map to 'a'..'z'
Lower(x) == [k \in DOMAIN x |-> IF x[k] \in 65..90 THEN x[k] + 32 ELSE x[k]]

----------------------------------------------------------------------------
(* get_latlon_names *)

\* the empty tuple ()
EmptyTuple == <<>>

\* result as initialised before the loop
InitialResult == [lat |-> EmptyTuple, lng |-> EmptyTuple]

\* mutant: the comparison is made on the name as written, not lowercased
LoopBodyCaseSensitive(res, i, x) ==
    IF x = s_latitude \/ x = s_lat
    THEN [res EXCEPT !.lat = <<i, x>>]
    ELSE IF x = s_longitude \/ x = s_lng
    THEN [res EXCEPT !.lng = <<i, x>>]
    ELSE res

\* one iteration of the for loop: column x at 0-based position i
LoopBody(res, i, x) ==
    LET xl == Lower(x) IN
    IF xl = s_latitude \/ xl = s_lat
    THEN [res EXCEPT !.lat = <<i, x>>]
    ELSE IF xl = s_longitude \/ xl = s_lng
    THEN [res EXCEPT !.lng = <<i, x>>]
    ELSE res

\* mutant: the longitude test comes first
FinishLngFirst(cols, res) ==
    IF res.lng = EmptyTuple
    THEN [kind |-> "raise", exc |-> "KeyError", axis |-> "Longitude",
          cols |-> cols, value |-> InitialResult]
    ELSE IF res.lat = EmptyTuple
    THEN [kind |-> "raise", exc |-> "KeyError", axis |-> "Latitude",
          cols |-> cols, value |-> InitialResult]
    ELSE [kind |-> "return", exc |-> "", axis |-> "",
          cols |-> cols, value |-> res]

\* the checks after the loop: raise KeyError naming the axis, or return
Finish(cols, res) ==
    IF res.lat = EmptyTuple
    THEN [kind |-> "raise", exc |-> "KeyError", axis |-> "Latitude",
          cols |-> cols, value |-> InitialResult]
    ELSE IF res.lng = EmptyTuple
    THEN [kind |-> "raise", exc |-> "KeyError", axis |-> "Longitude",
          cols |-> cols, value |-> InitialResult]
    ELSE [kind |-> "return", exc |-> "", axis |-> "",
          cols |-> cols, value |-> res]

RECURSIVE ScanColumns(_, _, _)
\* the whole for loop, from 0-based position i on
ScanColumns(cols, i, res) ==
    IF i >= Len(cols) THEN res
    ELSE ScanColumns(cols, i + 1, LoopBody(res, i, cols[i + 1]))

\* get_latlon_names as a function of the header
get_latlon_names(cols) == Finish(cols, ScanColumns(cols, 0, InitialResult))

----------------------------------------------------------------------------
(* File names.  All files live in one directory, so that a path is its    *)
(* basename and os.path.dirname(path) is empty.                           *)

\* ".csv"
s_dot_csv == <<46, 99, 115, 118>>
\* ".tif"
s_dot_tif == <<46, 116, 105, 102>>
\* "a.csv"
f_a_csv == <<97, 46, 99, 115, 118>>
\* "a.CSV"
f_a_CSV == <<97, 46, 67, 83, 86>>
\* "b.csv"
f_b_csv == <<98, 46, 99, 115, 118>>
\* "a.txt"
f_a_txt == <<97, 46, 116, 120, 116>>

FileNames == {f_a_csv, f_a_CSV, f_b_csv, f_a_txt}

\* largest element of a non-empty set of integers
MaxOf(S) == CHOOSE p \in S : \A q \in S : q <= p

\* smallest element of a non-empty set of integers
MinOf(S) == CHOOSE p \in S : \A q \in S : p <= q

\* os.path.splitext: split at the last '.' that is not the first character
SplitExt(p) ==
    LET dots == {k \in DOMAIN p : p[k] = 46 /\ k > 1} IN
    IF dots = {} THEN <<p, <<>>>>
    ELSE <<SubSeq(p, 1, MaxOf(dots) - 1), SubSeq(p, MaxOf(dots), Len(p))>>

\* os.path.join(os.path.dirname(input_file_name), body + ".tif")
OutputName(p) == SplitExt(p)[1] \o s_dot_tif

OutNames == {OutputName(n) : n \in FileNames}

----------------------------------------------------------------------------
(* Tables (pandas data frames) and raster arrays *)

\* nodata = -9999.
NODATA == -9999

\* a data frame: column labels, column dtypes ("num" or "obj"), rows.
\* Coordinates are offsets, in metres of latitude, within the region the
\* table covers; stretch is 1/cos(latitude) of that region, the number of
\* coordinate units a metre due east spans.
Table(cols, dtypes, rows, stretch) ==
    [exists |-> TRUE, columns |-> cols, dtypes |-> dtypes, rows |-> rows,
     stretch |-> stretch]

\* no file at that name
Absent == [exists |-> FALSE, columns |-> <<>>, dtypes |-> <<>>, rows |-> <<>>,
           stretch |-> 1]

\* 1-based position of the first column labelled name
ColumnOf(cols, name) == MinOf({p \in DOMAIN cols : cols[p] = name})

\* df[name]: the values of the column labelled name, in row order
Column(df, name) ==
    [r \in DOMAIN df.rows |-> df.rows[r][ColumnOf(df.columns, name)]]

\* subsequence of s at the positions satisfying keep, order preserved
RECURSIVE Keep(_, _, _)
Keep(s, keepset, k) ==
    IF k > Len(s) THEN <<>>
    ELSE (IF k \in keepset THEN <<s[k]>> ELSE <<>>) \o Keep(s, keepset, k + 1)

\* df.drop([names], axis=1): every column carrying one of the labels goes
Drop(df, names) ==
    LET keepset == {p \in DOMAIN df.columns : df.columns[p] \notin names} IN
    [exists |-> TRUE, stretch |-> df.stretch,
     columns |-> Keep(df.columns, keepset, 1),
     dtypes |-> Keep(df.dtypes, keepset, 1),
     rows |-> [r \in DOMAIN df.rows |-> Keep(df.rows[r], keepset, 1)]]

\* [Point(xy) for xy in zip(df[lng], df[lat])]: points <<x, y>> in row order
Geometry(df, names) ==
    LET xs == Column(df, names.lng[2])
        ys == Column(df, names.lat[2])
    IN [r \in DOMAIN df.rows |-> <<xs[r], ys[r]>>]

\* gdf.total_bounds: (minx, miny, maxx, maxy)
TotalBounds(geom) ==
    LET xs == {geom[r][1] : r \in DOMAIN geom}
        ys == {geom[r][2] : r \in DOMAIN geom}
    IN <<MinOf(xs), MinOf(ys), MaxOf(xs), MaxOf(ys)>>

\* unit = (point_east[1] - point0[1], point_north[0] - point0[0]): the
\* coordinate units per cell.  inverse_haversine moves point0 by res metres
\* due east (res * stretch units of longitude) and due north (res units of
\* latitude).
Unit(res, stretch) == <<res * stretch, res>>

\* nxy = (int(dx / unit[0]), int(dy / unit[1])): (width, height)
GridSize(bbox, unit) ==
    <<(bbox[3] - bbox[1]) \div unit[1], (bbox[4] - bbox[2]) \div unit[2]>>

\* rasterio.transform.from_bounds(west, south, east, north, width, height):
\* origin (west, north), cell width (east-west)/width, cell height
\* (north-south)/height, kept as numerator and denominator
FromBounds(bbox, nxy) ==
    [west |-> bbox[1], north |-> bbox[4],
     xnum |-> bbox[3] - bbox[1], xden |-> nxy[1],
     ynum |-> bbox[4] - bbox[2], yden |-> nxy[2]]

\* the (row, col) of the cell that contains point pt, 0-based:
\* col = floor((x - west) / cellwidth), row = floor((north - y) / cellheight)
PixelOf(t, pt) ==
    <<((t.north - pt[2]) * t.yden) \div t.ynum,
      ((pt[1] - t.west) * t.xden) \div t.xnum>>

\* an array of the given (rows, cols) shape filled with one value
Full(shape, v) ==
    [shape |-> shape,
     data |-> [c \in (0..(shape[1] - 1)) \X (0..(shape[2] - 1)) |-> v]]

\* mutant: a cell already burnt keeps its value (first write wins)
BurnPointKeepFirst(arr, cell, v) ==
    IF cell \in DOMAIN arr.data /\ arr.data[cell] = NODATA
    THEN [arr EXCEPT !.data[cell] = v]
    ELSE arr

\* burning one point: the cell that contains it takes the value, when the
\* cell lies inside the array
BurnPoint(arr, cell, v) ==
    IF cell \in DOMAIN arr.data
    THEN [arr EXCEPT !.data[cell] = v]
    ELSE arr

RECURSIVE BurnFrom(_, _, _, _, _)
\* the shapes are burnt one after the other, in the order they are given
BurnFrom(arr, geom, values, t, k) ==
    IF k > Len(geom) THEN arr
    ELSE BurnFrom(BurnPoint(arr, PixelOf(t, geom[k]), values[k]),
                  geom, values, t, k + 1)

\* rasterize(zip(geometry, values), out_shape=..., transform=..., fill=...,
\* all_touched=True): out_shape is (rows, cols)
Rasterize(geom, values, out_shape, t, fill) ==
    BurnFrom(Full(out_shape, fill), geom, values, t, 1)

\* what a write of an array stores in a band of another shape: GDAL scales
\* the buffer onto the band, nearest neighbour
Resample(arr, shape) ==
    [shape |-> shape,
     data |-> [c \in (0..(shape[1] - 1)) \X (0..(shape[2] - 1)) |->
                 arr.data[<<(c[1] * arr.shape[1]) \div shape[1],
                            (c[2] * arr.shape[2]) \div shape[2]>>]]]

\* the file rasterio.open(name, "w", **profile) creates: no band written yet
NewRaster(profile) ==
    [exists |-> TRUE, width |-> profile.width, height |-> profile.height,
     count |-> profile.count, bands |-> <<>>]

\* no output file at that name
NoRaster == [exists |-> FALSE, width |-> 0, height |-> 0, count |-> 0,
             bands |-> <<>>]

\* GDAL refuses to create a raster without cells or without bands
Creatable(profile) ==
    profile.width >= 1 /\ profile.height >= 1 /\ profile.count >= 1

----------------------------------------------------------------------------
(* Csv2Tif: execute_all, execute_one and convert_csv, statement by         *)
(* statement.  An uncaught exception ends the program (pc = "raised").     *)

NoExc == [kind |-> "", at |-> "", msg |-> ""]

Raise(kind, at, msg) == [kind |-> kind, at |-> at, msg |-> msg]

NoArray == [shape |-> <<0, 0>>, data |-> <<>>]

NoTransform == [west |-> 0, north |-> 0, xnum |-> 0, xden |-> 0,
                ynum |-> 0, yden |-> 0]

\* the locals before anything is assigned
NoLoc ==
    [input_file_name |-> <<>>, output_file_name |-> <<>>, df |-> Absent,
     latlng_names |-> InitialResult, geom |-> <<>>, bbox |-> <<0, 0, 0, 0>>,
     unit |-> <<0, 0>>, nxy |-> <<0, 0>>, transform |-> NoTransform,
     i |-> 0, z_array |-> NoArray]

\* the profile dict handed to rasterio.open
Profile(l) ==
    [width |-> l.nxy[1], height |-> l.nxy[2], count |-> Len(l.df.columns),
     nodata |-> NODATA, transform |-> l.transform]

\* EPSG codes pyproj accepts, among those enumerated
ValidCrs(code) == code = 4326

\* mutant: the handle is released only when the block ends normally
WithExitNormalOnly(hs, h, raising) == IF raising THEN hs ELSE hs \ {h}

\* leaving the with block, normally or by an exception, closes the handle
WithExit(hs, h, raising) == hs \ {h}

\* execute_all: for input_file_name in self.input_file_list
LoopNext ==
    /\ pc = "loop"
    /\ idx < Len(input_file_list)
    /\ loc' = [NoLoc EXCEPT !.input_file_name = input_file_list[idx + 1]]
    /\ attempted' = attempted \cup {idx + 1}
    /\ out_before' = out
    /\ pc' = "execute_one"
    /\ UNCHANGED <<rvars, lib>>
    /\ UNCHANGED <<input_file_list, resolution, crs_code, fs, out, idx,
                   handles, exc, converted>>

\* execute_all: the list is exhausted
LoopEnd ==
    /\ pc = "loop"
    /\ idx = Len(input_file_list)
    /\ pc' = "finished"
    /\ UNCHANGED <<rvars, lib>>
    /\ UNCHANGED <<input_file_list, resolution, crs_code, fs, out, idx, loc,
                   handles, exc, out_before, attempted, converted>>

\* execute_one: if not os.path.lexists(input_file_name): raise OSError
ExecuteOneNotFound ==
    /\ pc = "execute_one"
    /\ ~fs[loc.input_file_name].exists
    /\ exc' = Raise("OSError", "execute_one", "File not found!")
    /\ pc' = "raised"
    /\ UNCHANGED <<rvars, lib>>
    /\ UNCHANGED <<input_file_list, resolution, crs_code, fs, out, idx, loc,
                   handles, out_before, attempted, converted>>

\* execute_one: elif suffix != ".csv": raise OSError
ExecuteOneBadSuffix ==
    /\ pc = "execute_one"
    /\ fs[loc.input_file_name].exists
    /\ Lower(SplitExt(loc.input_file_name)[2]) # s_dot_csv
    /\ exc' = Raise("OSError", "execute_one", "File extension is invalid!")
    /\ pc' = "raised"
    /\ UNCHANGED <<rvars, lib>>
    /\ UNCHANGED <<input_file_list, resolution, crs_code, fs, out, idx, loc,
                   handles, out_before, attempted, converted>>

\* execute_one: else: output_file_name = ...; self.convert_csv(...)
ExecuteOneConvert ==
    /\ pc = "execute_one"
    /\ fs[loc.input_file_name].exists
    /\ Lower(SplitExt(loc.input_file_name)[2]) = s_dot_csv
    /\ loc' = [loc EXCEPT !.output_file_name = OutputName(loc.input_file_name)]
    /\ pc' = "read"
    /\ UNCHANGED <<rvars, lib>>
    /\ UNCHANGED <<input_file_list, resolution, crs_code, fs, out, idx,
                   handles, exc, out_before, attempted, converted>>

\* convert_csv: df = pd.read_csv(...); latlng_names = get_latlon_names(...)
ReadCsv ==
    /\ pc = "read"
    /\ LET df == fs[loc.input_file_name]
           r == get_latlon_names(df.columns)
       IN IF r.kind = "raise"
          THEN /\ exc' = Raise(r.exc, "get_latlon_names", r.axis)
               /\ pc' = "raised"
               /\ loc' = [loc EXCEPT !.df = df]
          ELSE /\ loc' = [loc EXCEPT !.df = df, !.latlng_names = r.value]
               /\ pc' = "geom"
               /\ exc' = exc
    /\ UNCHANGED <<rvars, lib>>
    /\ UNCHANGED <<input_file_list, resolution, crs_code, fs, out, idx,
                   handles, out_before, attempted, converted>>

\* convert_csv: geom = [...]; df = df.drop(...); gdf = GeoDataFrame(...)
BuildGdf ==
    /\ pc = "geom"
    /\ IF ValidCrs(crs_code)
       THEN /\ loc' = [loc EXCEPT
                         !.geom = Geometry(loc.df, loc.latlng_names),
                         !.df = Drop(loc.df, {loc.latlng_names.lat[2],
                                              loc.latlng_names.lng[2]})]
            /\ pc' = "grid"
            /\ exc' = exc
       ELSE /\ exc' = Raise("CRSError", "GeoDataFrame", "Invalid projection")
            /\ pc' = "raised"
            /\ loc' = loc
    /\ UNCHANGED <<rvars, lib>>
    /\ UNCHANGED <<input_file_list, resolution, crs_code, fs, out, idx,
                   handles, out_before, attempted, converted>>

\* convert_csv: bbox, point0, unit, nxy, out_transform, profile
GridSizer ==
    /\ pc = "grid"
    /\ LET bbox == TotalBounds(loc.geom)
           unit == Unit(resolution, loc.df.stretch)
           nxy == GridSize(bbox, unit)
       IN loc' = [loc EXCEPT !.bbox = bbox, !.unit = unit, !.nxy = nxy,
                             !.transform = FromBounds(bbox, nxy)]
    /\ pc' = "open"
    /\ UNCHANGED <<rvars, lib>>
    /\ UNCHANGED <<input_file_list, resolution, crs_code, fs, out, idx,
                   handles, exc, out_before, attempted, converted>>

\* convert_csv: with rasterio.open(output_file_name, "w", **profile) as dst
\* The file is created anew (an existing one is replaced) and dst is open.
OpenOk ==
    /\ pc = "open"
    /\ Creatable(Profile(loc))
    /\ out' = [out EXCEPT ![loc.output_file_name] = NewRaster(Profile(loc))]
    /\ handles' = handles \cup {idx + 1}
    /\ pc' = "band"
    /\ UNCHANGED <<rvars, lib>>
    /\ UNCHANGED <<input_file_list, resolution, crs_code, fs, idx, loc, exc,
                   out_before, attempted, converted>>

\* convert_csv: rasterio.open raises because the driver refuses the
\* profile.  No handle is acquired.  A file already at the path is gone when
\* the build deletes the old dataset before it creates the new one.
OpenFailProfile ==
    /\ pc = "open"
    /\ ~Creatable(Profile(loc))
    /\ out' = IF lib.delete_first
              THEN [out EXCEPT ![loc.output_file_name] = NoRaster]
              ELSE out
    /\ exc' = Raise("RasterioIOError", "open",
                    "width, height and bands must be positive")
    /\ pc' = "raised"
    /\ UNCHANGED <<rvars, lib>>
    /\ UNCHANGED <<input_file_list, resolution, crs_code, fs, idx, loc,
                   handles, out_before, attempted, converted>>

\* convert_csv: rasterio.open raises because the path cannot be written.
\* No handle is acquired and nothing at the path changes.
OpenFailPath ==
    /\ pc = "open"
    /\ Creatable(Profile(loc))
    /\ exc' = Raise("RasterioIOError", "open", "cannot write path")
    /\ out' = out
    /\ pc' = "raised"
    /\ UNCHANGED <<rvars, lib>>
    /\ UNCHANGED <<input_file_list, resolution, crs_code, fs, idx, loc,
                   handles, out_before, attempted, converted>>

\* convert_csv: z_array = rasterize(zip(gdf["geometry"], gdf[z_name]), ...)
RasterizeBand ==
    /\ pc = "band"
    /\ loc.i < Len(loc.df.columns)
    /\ loc.df.dtypes[loc.i + 1] = "num"
    /\ loc' = [loc EXCEPT !.z_array =
                 Rasterize(loc.geom, Column(loc.df, loc.df.columns[loc.i + 1]),
                           loc.nxy, loc.transform, NODATA)]
    /\ pc' = "write"
    /\ UNCHANGED <<rvars, lib>>
    /\ UNCHANGED <<input_file_list, resolution, crs_code, fs, out, idx,
                   handles, exc, out_before, attempted, converted>>

\* convert_csv: rasterize raises on a column whose values are not numbers
RasterizeRaise ==
    /\ pc = "band"
    /\ loc.i < Len(loc.df.columns)
    /\ loc.df.dtypes[loc.i + 1] # "num"
    /\ exc' = Raise("ValueError", "rasterize", "invalid dtype of values")
    /\ pc' = "unwind"
    /\ UNCHANGED <<rvars, lib>>
    /\ UNCHANGED <<input_file_list, resolution, crs_code, fs, out, idx, loc,
                   handles, out_before, attempted, converted>>

\* the (rows, cols) shape of a band of the open file
BandShape(f) == <<f.height, f.width>>

\* convert_csv: dst.write(z_array, i+1), the array having the band's shape
WriteBand ==
    /\ pc = "write"
    /\ loc.z_array.shape = BandShape(out[loc.output_file_name])
    /\ out' = [out EXCEPT ![loc.output_file_name].bands =
                 Append(@, loc.z_array)]
    /\ loc' = [loc EXCEPT !.i = @ + 1]
    /\ pc' = "band"
    /\ UNCHANGED <<rvars, lib>>
    /\ UNCHANGED <<input_file_list, resolution, crs_code, fs, idx, handles,
                   exc, out_before, attempted, converted>>

\* convert_csv: dst.write(z_array, i+1), the array having another shape,
\* in a build that hands the array to GDAL as it is: it is stored scaled
WriteBandScaled ==
    /\ pc = "write"
    /\ ~lib.strict_write
    /\ loc.z_array.shape # BandShape(out[loc.output_file_name])
    /\ out' = [out EXCEPT ![loc.output_file_name].bands =
                 Append(@, Resample(loc.z_array,
                                    BandShape(out[loc.output_file_name])))]
    /\ loc' = [loc EXCEPT !.i = @ + 1]
    /\ pc' = "band"
    /\ UNCHANGED <<rvars, lib>>
    /\ UNCHANGED <<input_file_list, resolution, crs_code, fs, idx, handles,
                   exc, out_before, attempted, converted>>

\* convert_csv: dst.write(z_array, i+1), the array having another shape,
\* in a build that checks the shape: the write raises
WriteBandRaise ==
    /\ pc = "write"
    /\ lib.strict_write
    /\ loc.z_array.shape # BandShape(out[loc.output_file_name])
    /\ exc' = Raise("ValueError", "write", "shape mismatch")
    /\ pc' = "unwind"
    /\ UNCHANGED <<rvars, lib>>
    /\ UNCHANGED <<input_file_list, resolution, crs_code, fs, out, idx, loc,
                   handles, out_before, attempted, converted>>

\* convert_csv: an exception leaves the with block; it propagates through
\* execute_one and execute_all, which catch nothing
WithExitError ==
    /\ pc = "unwind"
    /\ handles' = WithExit(handles, idx + 1, TRUE)
    /\ pc' = "raised"
    /\ UNCHANGED <<rvars, lib>>
    /\ UNCHANGED <<input_file_list, resolution, crs_code, fs, out, idx, loc,
                   exc, out_before, attempted, converted>>

\* convert_csv: the band loop ends, the with block is left, convert_csv and
\* execute_one return
WithExitReturn ==
    /\ pc = "band"
    /\ loc.i = Len(loc.df.columns)
    /\ handles' = WithExit(handles, idx + 1, FALSE)
    /\ converted' = converted \cup {idx + 1}
    /\ idx' = idx + 1
    /\ pc' = "loop"
    /\ UNCHANGED <<rvars, lib>>
    /\ UNCHANGED <<input_file_list, resolution, crs_code, fs, out, loc, exc,
                   out_before, attempted>>

NextBatch ==
    \/ LoopNext \/ LoopEnd
    \/ ExecuteOneNotFound \/ ExecuteOneBadSuffix \/ ExecuteOneConvert
    \/ ReadCsv \/ BuildGdf \/ GridSizer
    \/ OpenOk \/ OpenFailProfile \/ OpenFailPath
    \/ RasterizeBand \/ RasterizeRaise
    \/ WriteBand \/ WriteBandScaled \/ WriteBandRaise
    \/ WithExitError \/ WithExitReturn

----------------------------------------------------------------------------
(* The column resolver run step by step on an arbitrary header *)

ColumnNames ==
    {s_lat, s_LAT, s_Latitude, s_lng, s_Lng, s_Longitude, s_lon, s_val}

Headers == UNION {[1..n -> ColumnNames] : n \in 0..MaxCols}

NoOutcome == [kind |-> "none", exc |-> "", axis |-> "",
              cols |-> <<>>, value |-> InitialResult]

\* the driver is not running
IdleBatch ==
    /\ input_file_list = <<>>
    /\ resolution = 1
    /\ crs_code = 4326
    /\ fs = [n \in FileNames |-> Absent]
    /\ out = [n \in OutNames |-> NoRaster]
    /\ idx = 0
    /\ pc = "idle"
    /\ loc = NoLoc
    /\ handles = {}
    /\ exc = NoExc
    /\ out_before = [n \in OutNames |-> NoRaster]
    /\ attempted = {}
    /\ converted = {}
    /\ lib = [strict_write |-> FALSE, delete_first |-> TRUE]

\* the resolver is not running on its own
IdleResolver ==
    /\ columns = <<>>
    /\ col_i = 0
    /\ result = InitialResult
    /\ ret = NoOutcome
    /\ rpc = "idle"

InitResolver ==
    /\ columns \in Headers
    /\ col_i = 0
    /\ result = InitialResult
    /\ ret = NoOutcome
    /\ rpc = "scan"
    /\ IdleBatch

\* for i, x in enumerate(columns): ...
ScanStep ==
    /\ rpc = "scan"
    /\ col_i < Len(columns)
    /\ result' = LoopBody(result, col_i, columns[col_i + 1])
    /\ col_i' = col_i + 1
    /\ UNCHANGED <<columns, ret, rpc>>
    /\ UNCHANGED bvars

\* the loop is exhausted
ScanEnd ==
    /\ rpc = "scan"
    /\ col_i = Len(columns)
    /\ rpc' = "check"
    /\ UNCHANGED <<columns, col_i, result, ret>>
    /\ UNCHANGED bvars

\* if result["lat"] == (): raise ... elif ...: raise ... else: return result
ResolverFinish ==
    /\ rpc = "check"
    /\ ret' = Finish(columns, result)
    /\ rpc' = "done"
    /\ UNCHANGED <<columns, col_i, result>>
    /\ UNCHANGED bvars

NextResolver == ScanStep \/ ScanEnd \/ ResolverFinish

SpecResolver == InitResolver /\ [][NextResolver]_vars

----------------------------------------------------------------------------
(* One conversion of an arbitrary small table *)

Coords == 0..MaxCoord

\* "lat", "lng", "val": rows are <<lat, lng, val>>, the value of a row
\* being its number, so that a cell tells which row wrote it
OneBandTables ==
    {Table(<<s_lat, s_lng, s_val>>, <<"num", "num", "num">>,
           [r \in DOMAIN pts |-> <<pts[r][1], pts[r][2], r>>], st) :
       pts \in UNION {[1..n -> Coords \X Coords] : n \in RowCounts},
       st \in Stretches}

\* "Longitude", "val", "LAT", "W": two attribute columns, three rows of
\* which the first two share a point
TwoBandTables ==
    {Table(<<s_Longitude, s_val, s_LAT, s_W>>, <<"num", "num", "num", "num">>,
           <<<<0, v[1], MaxCoord, v[2]>>, <<0, v[3], MaxCoord, v[4]>>,
             <<MaxCoord, v[5], 0, v[6]>>>>, 1) : v \in [1..6 -> Values]}

\* "lat", "lng" and nothing else: no attribute column
NoBandTables ==
    {Table(<<s_lat, s_lng>>, <<"num", "num">>, rows, 1) :
       rows \in UNION {[1..n -> Coords \X Coords] : n \in {1, 2}}}

\* a text attribute column; no longitude alias ("lon"); no alias at all
OddTables ==
    {Table(<<s_lat, s_lng, s_val>>, <<"num", "num", "obj">>,
           <<<<MaxCoord, 0, 1>>, <<MaxCoord, 0, 2>>, <<0, MaxCoord, 1>>>>, 1),
     Table(<<s_lat, s_lon, s_val>>, <<"num", "num", "num">>, <<<<0, 0, 1>>>>, 1),
     Table(<<s_val, s_W>>, <<"num", "num">>, <<<<1, 1>>>>, 1)}

ConvertTables == OneBandTables \cup TwoBandTables \cup NoBandTables \cup OddTables

\* the driver about to run, nothing written yet
StartBatch ==
    /\ out = [n \in OutNames |-> NoRaster]
    /\ idx = 0
    /\ pc = "loop"
    /\ loc = NoLoc
    /\ handles = {}
    /\ exc = NoExc
    /\ out_before = [n \in OutNames |-> NoRaster]
    /\ attempted = {}
    /\ converted = {}

\* the builds enumerated: dst.write checks the array's shape or not; a
\* dataset already at the path is deleted before or after the new one is
\* validated
Builds == [strict_write : BOOLEAN, delete_first : BOOLEAN]

InitConvert ==
    /\ IdleResolver
    /\ lib \in Builds
    /\ resolution \in 1..MaxRes
    /\ crs_code \in CrsCodes
    /\ \E n \in FileNames :
         /\ input_file_list = <<n>>
         /\ \E t \in (IF n = f_a_csv /\ crs_code = 4326 THEN ConvertTables
                       ELSE OddTables) \cup {Absent} :
              fs = [m \in FileNames |-> IF m = n THEN t ELSE Absent]
    /\ StartBatch

SpecConvert == InitConvert /\ [][NextBatch]_vars

----------------------------------------------------------------------------
(* A batch of inputs drawn from a few tables *)

\* three rows, the first two on one point; values v1, v2, v3
ThreeRows(v1, v2, v3, dtype, st) ==
    Table(<<s_lat, s_lng, s_val>>, <<"num", "num", dtype>>,
          <<<<MaxCoord, 0, v1>>, <<MaxCoord, 0, v2>>, <<0, MaxCoord, v3>>>>, st)

\* two tables of numbers on the same points, the same with a text column,
\* the first in a region where a metre of longitude is wider, a table
\* without longitude alias, and a table of one row
BatchTables ==
    {ThreeRows(1, 2, 1, "num", 1), ThreeRows(2, 1, 2, "num", 1),
     ThreeRows(1, 2, 1, "obj", 1), ThreeRows(1, 2, 1, "num", 2),
     Table(<<s_lat, s_lon, s_val>>, <<"num", "num", "num">>, <<<<0, 0, 1>>>>, 1),
     Table(<<s_lat, s_lng, s_val>>, <<"num", "num", "num">>, <<<<0, 0, 1>>>>, 1)}

InputLists == UNION {[1..n -> FileNames] : n \in 1..MaxInputs}

InitBatch ==
    /\ IdleResolver
    /\ lib \in Builds
    /\ resolution \in 1..MaxRes
    /\ crs_code \in CrsCodes
    /\ input_file_list \in InputLists
    /\ fs \in [FileNames -> BatchTables \cup {Absent}]
    /\ \A n \in FileNames :
         \/ \E k \in DOMAIN input_file_list : input_file_list[k] = n
         \/ fs[n] = Absent
    /\ StartBatch

SpecBatch == InitBatch /\ [][NextBatch]_vars

----------------------------------------------------------------------------
(* Properties of the column resolver *)

\* 1-based positions of the columns whose lowercased name is a latitude alias
LatPositions(cols) ==
    {p \in DOMAIN cols : Lower(cols[p]) \in {s_latitude, s_lat}}

\* 1-based positions of the columns whose lowercased name is a longitude alias
LngPositions(cols) ==
    {p \in DOMAIN cols : Lower(cols[p]) \in {s_longitude, s_lng}}

ResolverDone == rpc = "done"

\* C1: a header with exactly one latitude-alias column and exactly one
\* longitude-alias column (any letter case, any positions) makes
\* get_latlon_names return, without error, lat = (index, original name) of
\* the latitude column and lng = (index, original name) of the longitude one.
C1_UniquePairResolved ==
    (ResolverDone /\ Cardinality(LatPositions(columns)) = 1
                  /\ Cardinality(LngPositions(columns)) = 1)
    => /\ ret.kind = "return"
       /\ \A p \in LatPositions(columns) : ret.value.lat = <<p - 1, columns[p]>>
       /\ \A p \in LngPositions(columns) : ret.value.lng = <<p - 1, columns[p]>>
       /\ ret = get_latlon_names(columns)

\* C1 witness: an upper-case latitude column placed after the longitude
\* column, with an unrelated column in between, has been resolved
C1_Witness ==
    /\ ResolverDone
    /\ columns = <<s_Longitude, s_val, s_LAT>>
    /\ ret.kind = "return"
    /\ ret.value.lat = <<2, s_LAT>>
    /\ ret.value.lng = <<0, s_Longitude>>

\* C2 (as claimed): every header without a longitude-alias column, whatever
\* else it contains, ends in a missing-field error naming longitude.
C2_AlwaysNamesLongitude ==
    (ResolverDone /\ LngPositions(columns) = {})
    => /\ ret.kind = "raise"
       /\ ret.exc = "KeyError"
       /\ ret.axis = "Longitude"

\* C2 (amended): every header without a longitude-alias column ends in a
\* KeyError and no result; the error names longitude when the header has a
\* latitude-alias column and names latitude when it has none.
C2_MissingLongitude ==
    (ResolverDone /\ LngPositions(columns) = {})
    => /\ ret.kind = "raise"
       /\ ret.exc = "KeyError"
       /\ ret.value = InitialResult
       /\ ret.cols = columns
       /\ ret.axis = (IF LatPositions(columns) = {} THEN "Latitude"
                      ELSE "Longitude")

\* C2 witness: a header with a latitude column, a near-miss "lon" column and
\* no longitude alias has raised the error naming longitude
C2_Witness ==
    /\ ResolverDone
    /\ columns = <<s_Latitude, s_lon>>
    /\ ret.kind = "raise"
    /\ ret.axis = "Longitude"

\* C9: when several columns match the same alias set, the axis is resolved
\* to the first matching column of the left-to-right scan (smallest index).
C9_FirstMatchWins ==
    (ResolverDone /\ ret.kind = "return")
    => /\ ret.value.lat[1] = MinOf(LatPositions(columns)) - 1
       /\ ret.value.lng[1] = MinOf(LngPositions(columns)) - 1

----------------------------------------------------------------------------
(* Properties of convert_csv *)

\* control is inside the with block of convert_csv
InWith == pc \in {"band", "write", "unwind"}

\* the rows whose point lies in the given cell of the current grid
RowsIn(cell) ==
    {k \in DOMAIN loc.geom : PixelOf(loc.transform, loc.geom[k]) = cell}

\* the law of C3 for one array holding attribute column number b (1-based)
LastRowWins(arr, b) ==
    \A cell \in DOMAIN arr.data :
        arr.data[cell] =
            IF RowsIn(cell) = {} THEN NODATA
            ELSE Column(loc.df, loc.df.columns[b])[MaxOf(RowsIn(cell))]

TheInput == input_file_list[1]

\* the input is a readable table of numbers with resolvable coordinates
WellFormedInput ==
    /\ fs[TheInput].exists
    /\ Lower(SplitExt(TheInput)[2]) = s_dot_csv
    /\ get_latlon_names(fs[TheInput].columns).kind = "return"
    /\ \A c \in DOMAIN fs[TheInput].dtypes : fs[TheInput].dtypes[c] = "num"
    /\ ValidCrs(crs_code)

\* the number of cells of an array that hold data
DataCells(arr) == Cardinality({c \in DOMAIN arr.data : arr.data[c] # NODATA})

\* C4: a table with exactly one row and N attribute columns is converted,
\* whatever the resolution, into a raster of exactly N bands, each with
\* exactly one cell that is not nodata (storage failures set aside).
C4_SinglePointRoundTrip ==
    (WellFormedInput /\ Len(fs[TheInput].rows) = 1
       /\ exc.msg # "cannot write path")
    => /\ pc # "raised"
       /\ pc = "finished" =>
            LET f == out[OutputName(TheInput)] IN
            /\ f.exists
            /\ Len(f.bands) = Len(fs[TheInput].columns) - 2
            /\ \A b \in DOMAIN f.bands : DataCells(f.bands[b]) = 1

\* C5: a grid with width 0 or height 0 never reaches rasterio.open or the
\* band loop: the conversion has failed before, with an error of the
\* InvalidInput class (OSError, as execute_one raises).
C5_ZeroGridRejected ==
    /\ (pc = "open" \/ InWith) => (loc.nxy[1] >= 1 /\ loc.nxy[2] >= 1)
    /\ (pc = "raised" /\ exc.at = "open"
          /\ (loc.nxy[1] = 0 \/ loc.nxy[2] = 0))
          => exc.kind = "OSError"

\* C10: every array the rasterize step returns has shape (height, width),
\* the height and width of the profile it is written into.
C10_ArrayShapeHeightWidth ==
    pc = "write" =>
        /\ loc.z_array.shape = <<Profile(loc).height, Profile(loc).width>>
        /\ loc.z_array.shape = BandShape(out[loc.output_file_name])

----------------------------------------------------------------------------
(* Properties of execute_all *)

\* C6: when the conversion of an input fails, the output written for every
\* earlier input of the list is what it was when the failing conversion
\* began.
C6_EarlierOutputsUntouched ==
    pc \in {"unwind", "raised"} =>
        \A j \in converted :
            out[OutputName(input_file_list[j])]
              = out_before[OutputName(input_file_list[j])]

\* C7: an I/O failure while opening the output of one input is fatal for
\* that input only: every other input of the list, the later ones
\* included, is still converted, so that execute_one has been called for
\* each existing file of the list other than the failing one by the time
\* the program has ended.
C7_OtherInputsStillConverted ==
    (pc = "raised" /\ exc.kind = "RasterioIOError")
    => \A k \in DOMAIN input_file_list :
          (input_file_list[k] # loc.input_file_name
             /\ fs[input_file_list[k]].exists)
          => k \in attempted

\* C8: the output handle is open only while control is inside the with
\* block, at most one handle is open at any time, and none is open when an
\* input begins, when an exception has left convert_csv or when
\* execute_all has ended.
C8_HandleScoped ==
    /\ Cardinality(handles) <= 1
    /\ InWith => handles = {idx + 1}
    /\ ~InWith => handles = {}

\* C8 witness: after a first input was converted, the second failed while
\* its bands were being rasterized or written, and no handle is left open
C8_Witness ==
    /\ pc = "raised"
    /\ exc.at \in {"rasterize", "write"}
    /\ converted = {1}
    /\ idx = 1
    /\ out[loc.output_file_name].exists
    /\ handles = {}

====
